---------------------------- MODULE Spec2Model ----------------------------
(***************************************************************************)
(* Model of build-scripts/ci_parser/ci_parser.py: the concurrent junit     *)
(* extraction pipeline (main, extract_junit_from_test_run, the             *)
(* process_xml_file workers run on a ThreadPoolExecutor, extract_test_cases)*)
(* and the report emitter append_failure_results.                          *)
(*                                                                         *)
(* A worker step is one access to shared state (the test_suites dict or a  *)
(* JUnitTestSuite object); the steps of different workers interleave       *)
(* freely, as the threads of the pool do.  Consecutive test-case elements  *)
(* of the same outcome are kept as one block [outcome, n]; a block is      *)
(* appended to the suite in one step.                                      *)
(***************************************************************************)
EXTENDS Integers, Sequences, FiniteSets, TLC

\* ------------------------------------------------------------------ bounds

\* The input directory holds at most MaxFiles files of the Catalogue.
MaxFiles == 2

\* ------------------------------------------------------- program constants

\* append_failure_results: "if total_failure_count > 200"
FailureCap == 200

\* extract_junit_from_test_run: xml_exclusions = ['split', 'result_details']
DiscoveryExclusions == {"split", "result_details"}

\* extract_test_cases: xml_exclusions = ['logback', 'checkstyle']
CaseExclusions == {"logback", "checkstyle"}

\* One element of a document: the blank shell's heading, content from earlier
\* runs, the '[Test Failure Details]' header, one suite's failure table.
Item(kind, suite, rows) == [kind |-> kind, suite |-> suite, rows |-> rows]

\* A file of the file system.
File(content) == [exists |-> TRUE, content |-> content]

Absent == [exists |-> FALSE, content |-> <<>>]

\* main: the blank ci_summary.html written when the output does not exist.
BlankShell == << Item("shell", "", 0) >>

\* The document a previous run left at args.output.
PriorReport == << Item("prior", "", 0) >>

\* ------------------------------------------------------------------ inputs

\* Suite names, listed in the order Python's sorted() gives them.
SuiteNames == <<"flaky", "integration", "unit">>

NoDoc == [name |-> "", rootIsCase |-> FALSE, cases |-> <<>>]

\* The files an input directory may hold.  path: the tokens of the path (a
\* substring test of the code is a token test here); readable: open()
\* succeeds; wellformed: ET.parse succeeds; doc: the parsed document: the
\* root's name attribute, whether the root element is itself a <testcase>,
\* and the <testcase> descendants in document order as blocks.
Catalogue ==
  << [path |-> <<"unit", ".xml">>, readable |-> TRUE, wellformed |-> TRUE,
      doc |-> [name |-> "unit", rootIsCase |-> FALSE,
               cases |-> << [outcome |-> "pass", n |-> 3],
                            [outcome |-> "failure", n |-> 1] >>]],
     [path |-> <<"integration", ".xml">>, readable |-> TRUE, wellformed |-> TRUE,
      doc |-> [name |-> "integration", rootIsCase |-> FALSE,
               cases |-> << [outcome |-> "pass", n |-> 2] >>]],
     [path |-> <<"dup1", ".xml">>, readable |-> TRUE, wellformed |-> TRUE,
      doc |-> [name |-> "flaky", rootIsCase |-> FALSE,
               cases |-> << [outcome |-> "failure", n |-> 200] >>]],
     [path |-> <<"dup2", ".xml">>, readable |-> TRUE, wellformed |-> TRUE,
      doc |-> [name |-> "flaky", rootIsCase |-> FALSE,
               cases |-> << [outcome |-> "failure", n |-> 201],
                            [outcome |-> "skipped", n |-> 1] >>]],
     [path |-> <<"truncated", ".xml">>, readable |-> TRUE, wellformed |-> FALSE,
      doc |-> NoDoc],
     [path |-> <<"locked", ".xml">>, readable |-> FALSE, wellformed |-> TRUE,
      doc |-> NoDoc],
     [path |-> <<"checkstyle", ".xml">>, readable |-> TRUE, wellformed |-> TRUE,
      doc |-> [name |-> "integration", rootIsCase |-> FALSE,
               cases |-> << [outcome |-> "pass", n |-> 1] >>]],
     [path |-> <<"empty", ".xml">>, readable |-> TRUE, wellformed |-> TRUE,
      doc |-> [name |-> "unit", rootIsCase |-> FALSE, cases |-> <<>>]],
     [path |-> <<"split", ".xml">>, readable |-> TRUE, wellformed |-> TRUE,
      doc |-> [name |-> "unit", rootIsCase |-> FALSE,
               cases |-> << [outcome |-> "pass", n |-> 1] >>]],
     [path |-> <<"nested", ".xml">>, readable |-> TRUE, wellformed |-> TRUE,
      doc |-> [name |-> "integration", rootIsCase |-> TRUE,
               cases |-> << [outcome |-> "error", n |-> 50] >>]] >>

FileIds == 1..Len(Catalogue)

Path(f) == Catalogue[f].path

Doc(f) == Catalogue[f].doc

Range(s) == {s[i] : i \in 1..Len(s)}

\* Python's "x in str(file)" for the name fragments the code tests.
Contains(path, x) == x \in Range(path)

\* Path(input_dir).rglob('*.xml')
RGlobXml(files) == {f \in files : Path(f)[Len(Path(f))] = ".xml"}

\* ----------------------------------------------------------- pure helpers

RECURSIVE SumN(_)
SumN(blocks) ==
  IF blocks = <<>> THEN 0 ELSE Head(blocks).n + SumN(Tail(blocks))

\* len(root.findall('.//testcase')): the <testcase> descendants of the root.
FindAllCount(doc) == SumN(doc.cases)

\* root.iter('testcase'): the root itself when it is a <testcase>, then its
\* <testcase> descendants, in document order.
IterCases(doc) ==
  (IF doc.rootIsCase THEN << [outcome |-> "pass", n |-> 1] >> ELSE <<>>)
    \o doc.cases

\* JUnitTestCase(testcase).status: ERROR counts as FAILURE.
StatusOf(outcome) ==
  CASE outcome = "pass" -> "PASSED"
    [] outcome = "failure" -> "FAILURE"
    [] outcome = "error" -> "FAILURE"
    [] OTHER -> "SKIPPED"

\* JUnitTestSuite(suite_name)
NewSuite(name) == [name |-> name, archive |-> 0, files |-> {}, tests |-> <<>>]

RECURSIVE CountBlocks(_, _)
CountBlocks(tests, status) ==
  IF tests = <<>> THEN 0
  ELSE (IF Head(tests).status = status THEN Head(tests).n ELSE 0)
         + CountBlocks(Tail(tests), status)

\* JUnitTestSuite.count(status)
SuiteCount(suite, status) == CountBlocks(suite.tests, status)

\* JUnitTestSuite.is_empty()
IsEmpty(suite) == suite.tests = <<>>

\* JUnitTestSuite.file_count()
FileCount(suite) == Cardinality(suite.files)

NameIndex(name) == CHOOSE i \in 1..Len(SuiteNames) : SuiteNames[i] = name

\* The keys in descending order, as with sorted(..., reverse=True).
SortedKeys_Descending(keys) ==
  LET idx == {NameIndex(k) : k \in keys}
      RECURSIVE Desc(_)
      Desc(S) == IF S = {} THEN <<>>
                 ELSE LET m == CHOOSE x \in S : \A y \in S : x >= y
                      IN  <<SuiteNames[m]>> \o Desc(S \ {m})
  IN  Desc(idx)

\* sorted(test_suites.keys())
SortedKeys(keys) ==
  LET idx == {NameIndex(k) : k \in keys}
      RECURSIVE Asc(_)
      Asc(S) == IF S = {} THEN <<>>
                ELSE LET m == CHOOSE x \in S : \A y \in S : x <= y
                     IN  <<SuiteNames[m]>> \o Asc(S \ {m})
  IN  Asc(idx)

\* ------------------------------------------------------------------- state

VARIABLES
  input_exists,     \* os.path.exists(args.input)
  dir,              \* the files under args.input
  fs_output,        \* the file args.output
  fs_bak,           \* the file args.output + '.bak'
  pc,               \* position of the main thread
  error,            \* the exception that ended the run, "none" otherwise
  xml_files,        \* the candidate files of extract_junit_from_test_run
  wpc,              \* position of each submitted process_xml_file task
  future,           \* each task's outcome: [exc, files, tests]
  consumed,         \* futures as_completed has yielded
  active_suite,     \* process_xml_file's local active_suite (an object id)
  case_i,           \* blocks of root.iter('testcase') already appended
  suite_name,       \* process_xml_file's local suite_name ("" while unbound)
  test_suites,      \* the shared dict: suite name -> JUnitTestSuite object id
  heap,             \* the JUnitTestSuite objects, by id (the creating task)
  test_file_count,  \* extract_junit_from_test_run's accumulators
  test_count,
  totals,           \* passed / failed / skipped summed over the suites
  soup,             \* append_failure_results: the document being built
  todo,             \* sorted suite names still to visit
  total_failure_count,
  log               \* what was logged

vars == << input_exists, dir, fs_output, fs_bak, pc, error, xml_files, wpc,
           future, consumed, active_suite, case_i, suite_name, test_suites,
           heap, test_file_count, test_count, totals, soup, todo,
           total_failure_count, log >>

workerVars == << wpc, future, active_suite, case_i, suite_name, test_suites,
                heap >>

\* The submitted tasks, each named after its file.
Tasks == DOMAIN wpc

NoFuture == [exc |-> "none", files |-> 0, tests |-> 0]

Init ==
  /\ input_exists \in BOOLEAN
  /\ dir \in {D \in SUBSET FileIds :
                /\ Cardinality(D) <= MaxFiles
                /\ (~input_exists => D = {}) }
  /\ fs_output \in {Absent, File(PriorReport)}
  /\ fs_bak = Absent
  /\ pc = "main"
  /\ error = "none"
  /\ xml_files = {}
  /\ wpc = << >>
  /\ future = << >>
  /\ consumed = {}
  /\ active_suite = << >>
  /\ case_i = << >>
  /\ suite_name = << >>
  /\ test_suites = << >>
  /\ heap = << >>
  /\ test_file_count = 0
  /\ test_count = 0
  /\ totals = [passed |-> 0, failed |-> 0, skipped |-> 0]
  /\ soup = <<>>
  /\ todo = <<>>
  /\ total_failure_count = 0
  /\ log = {}

\* --------------------------------------------------- process_xml_file task

\* A step of a pool thread leaves the main thread's state alone.
MainIdle ==
  UNCHANGED << input_exists, dir, fs_output, fs_bak, pc, error, xml_files,
               consumed, test_file_count, test_count, totals, soup, todo,
               total_failure_count >>

Returns(f, files, tests) ==
  /\ future' = [future EXCEPT ![f] = [exc |-> "none", files |-> files, tests |-> tests]]
  /\ wpc' = [wpc EXCEPT ![f] = "done"]

Raises(f, exc) ==
  /\ future' = [future EXCEPT ![f] = [exc |-> exc, files |-> 0, tests |-> 0]]
  /\ wpc' = [wpc EXCEPT ![f] = "done"]

Logged(level, event, subject) ==
  log' = log \cup {[level |-> level, event |-> event, subject |-> subject]}

\* open(xml_file, "rb") fails: the statement is outside the try, the error
\* leaves the task.
OpenFails(f) ==
  /\ f \in Tasks
  /\ wpc[f] = "queued"
  /\ ~Catalogue[f].readable
  /\ Raises(f, "PermissionError")
  /\ UNCHANGED << active_suite, case_i, suite_name, test_suites, heap, log >>
  /\ MainIdle

\* The handler of (EOFError, ET.ParseError): its message reads the local
\* suite_name, which raises UnboundLocalError while suite_name is unbound.
ParseErrorHandler(f) ==
  IF suite_name[f] = ""
  THEN Raises(f, "UnboundLocalError") /\ UNCHANGED log
  ELSE Returns(f, 0, 0) /\ Logged("error", "parse_error", f)

\* The suite is registered before the document is parsed: a failed parse
\* leaves a partial suite behind.
ParseFails_PartialSuite(f) ==
  /\ f \in Tasks
  /\ wpc[f] = "queued"
  /\ Catalogue[f].readable
  /\ ~Catalogue[f].wellformed
  /\ ParseErrorHandler(f)
  /\ heap' = (f :> NewSuite("unit")) @@ heap
  /\ test_suites' = ("unit" :> f) @@ test_suites
  /\ UNCHANGED << active_suite, case_i, suite_name >>
  /\ MainIdle

\* ET.parse(xml_input) raises ParseError; suite_name is assigned only on the
\* next line.
ParseFails(f) ==
  /\ f \in Tasks
  /\ wpc[f] = "queued"
  /\ Catalogue[f].readable
  /\ ~Catalogue[f].wellformed
  /\ ParseErrorHandler(f)
  /\ UNCHANGED << active_suite, case_i, suite_name, test_suites, heap >>
  /\ MainIdle

\* root = ET.parse(xml_input).getroot(); suite_name = str(root.get('name'))
Parsed(f) ==
  /\ f \in Tasks
  /\ wpc[f] = "queued"
  /\ Catalogue[f].readable
  /\ Catalogue[f].wellformed
  /\ suite_name' = [suite_name EXCEPT ![f] = Doc(f).name]
  /\ wpc' = [wpc EXCEPT ![f] = "check"]
  /\ UNCHANGED << future, active_suite, case_i, test_suites, heap, log >>
  /\ MainIdle

\* suite_name in test_suites
NameClaimed(name) == name \in DOMAIN test_suites

\* if suite_name in test_suites: log the duplicate and return 0,0
CheckDuplicate(f) ==
  /\ f \in Tasks
  /\ wpc[f] = "check"
  /\ IF NameClaimed(suite_name[f])
     THEN Returns(f, 0, 0) /\ Logged("error", "duplicate", f)
     ELSE wpc' = [wpc EXCEPT ![f] = "insert"] /\ UNCHANGED << future, log >>
  /\ UNCHANGED << active_suite, case_i, suite_name, test_suites, heap >>
  /\ MainIdle

\* test_suites[suite_name] = JUnitTestSuite(suite_name): a separate statement
\* from the membership test above; the new object is named after its task.
InsertSuite(f) ==
  /\ f \in Tasks
  /\ wpc[f] = "insert"
  /\ heap' = (f :> NewSuite(suite_name[f])) @@ heap
  /\ test_suites' = (suite_name[f] :> f) @@ test_suites
  /\ wpc' = [wpc EXCEPT ![f] = "lookup"]
  /\ UNCHANGED << future, active_suite, case_i, suite_name, log >>
  /\ MainIdle

\* active_suite = test_suites[suite_name]
LookupActive(f) ==
  /\ f \in Tasks
  /\ wpc[f] = "lookup"
  /\ active_suite' = [active_suite EXCEPT ![f] = test_suites[suite_name[f]]]
  /\ wpc' = [wpc EXCEPT ![f] = "archive"]
  /\ UNCHANGED << future, case_i, suite_name, test_suites, heap, log >>
  /\ MainIdle

\* active_suite.set_archive(xml_file)
SetArchive(f) ==
  /\ f \in Tasks
  /\ wpc[f] = "archive"
  /\ heap' = [heap EXCEPT ![active_suite[f]].archive = f]
  /\ wpc' = [wpc EXCEPT ![f] = "extract"]
  /\ UNCHANGED << future, active_suite, case_i, suite_name, test_suites, log >>
  /\ MainIdle

\* extract_test_cases: any(x in file_name for x in xml_exclusions)
CaseExcluded(f) == \E x \in CaseExclusions : Contains(Path(f), x)

\* suite.add_file(file_name) moved to the head of extract_test_cases, before
\* the filter and before the test for a count of zero.
ExtractTestCases_AddFileFirst(f) ==
  /\ f \in Tasks
  /\ wpc[f] = "extract"
  /\ heap' = [heap EXCEPT ![active_suite[f]].files = @ \cup {f}]
  /\ IF ~Contains(Path(f), ".xml") \/ CaseExcluded(f)
     THEN Returns(f, 0, 0) /\ UNCHANGED log
     ELSE IF FindAllCount(Doc(f)) = 0
     THEN Returns(f, 0, 0) /\ Logged("warning", "no_tests", f)
     ELSE /\ wpc' = [wpc EXCEPT ![f] = "cases"]
          /\ UNCHANGED << future, log >>
  /\ UNCHANGED << active_suite, case_i, suite_name, test_suites >>
  /\ MainIdle

\* if '.xml' in xml_file: fc = extract_test_cases(...), up to suite.add_file.
ExtractTestCases(f) ==
  /\ f \in Tasks
  /\ wpc[f] = "extract"
  /\ IF ~Contains(Path(f), ".xml") \/ CaseExcluded(f)
     THEN Returns(f, 0, 0) /\ UNCHANGED << heap, log >>
     ELSE IF FindAllCount(Doc(f)) = 0
     THEN Returns(f, 0, 0) /\ Logged("warning", "no_tests", f) /\ UNCHANGED heap
     ELSE /\ heap' = [heap EXCEPT ![active_suite[f]].files = @ \cup {f}]
          /\ wpc' = [wpc EXCEPT ![f] = "cases"]
          /\ UNCHANGED << future, log >>
  /\ UNCHANGED << active_suite, case_i, suite_name, test_suites >>
  /\ MainIdle

\* processed = JUnitTestCase(testcase)
NewTestCases(f, block) ==
  [file |-> f, status |-> StatusOf(block.outcome), n |-> block.n]

\* for testcase in root.iter('testcase'): suite.add_testcase(processed)
AddTestCase(f) ==
  /\ f \in Tasks
  /\ wpc[f] = "cases"
  /\ case_i[f] < Len(IterCases(Doc(f)))
  /\ heap' = [heap EXCEPT ![active_suite[f]].tests =
                Append(@, NewTestCases(f, IterCases(Doc(f))[case_i[f] + 1]))]
  /\ case_i' = [case_i EXCEPT ![f] = @ + 1]
  /\ UNCHANGED << wpc, future, active_suite, suite_name, test_suites, log >>
  /\ MainIdle

\* The loop has ended (found = 1, as the iteration was not empty): return
\* test_count; then "if fc != 0: test_file_count += 1; test_count += fc" and
\* "return test_file_count, test_count".
ReturnCounts(f) ==
  /\ f \in Tasks
  /\ wpc[f] = "cases"
  /\ case_i[f] = Len(IterCases(Doc(f)))
  /\ Returns(f, 1, FindAllCount(Doc(f)))
  /\ UNCHANGED << active_suite, case_i, suite_name, test_suites, heap, log >>
  /\ MainIdle

\* --------------------------------------------------------------- main thread

\* log_and_raise(msg, FileNotFoundError)
LogAndRaise(exc) ==
  /\ Logged("critical", exc, 0)
  /\ error' = exc
  /\ pc' = "aborted"

\* check_file_condition(lambda: os.path.exists(args.input), ...)
CheckInput ==
  /\ pc = "main"
  /\ IF input_exists
     THEN pc' = "shell" /\ UNCHANGED << error, log >>
     ELSE LogAndRaise("FileNotFoundError")
  /\ UNCHANGED << input_exists, dir, fs_output, fs_bak, xml_files, consumed,
                  test_file_count, test_count, totals, soup, todo,
                  total_failure_count >>
  /\ UNCHANGED workerVars

\* if not os.path.exists(args.output): write the blank shell
CreateShell ==
  /\ pc = "shell"
  /\ fs_output' = IF fs_output.exists THEN fs_output ELSE File(BlankShell)
  /\ pc' = "discover"
  /\ UNCHANGED << input_exists, dir, fs_bak, error, xml_files, consumed,
                  test_file_count, test_count, totals, soup, todo,
                  total_failure_count, log >>
  /\ UNCHANGED workerVars

\* debug_file and xml_inclusions are None: the exclusion branch.
Candidates(files) ==
  {f \in RGlobXml(files) : ~ \E x \in DiscoveryExclusions : Contains(Path(f), x)}

\* The length test left out: an empty candidate list goes on to the pool.
HasCandidates_Unchecked(files) == TRUE

\* lambda: len(xml_files) != 0
HasCandidates(files) == Cardinality(files) # 0

\* xml_files = [...]; check_file_condition(lambda: len(xml_files) != 0, ...)
Discover ==
  /\ pc = "discover"
  /\ xml_files' = Candidates(dir)
  /\ IF HasCandidates(xml_files')
     THEN pc' = "submit" /\ UNCHANGED << error, log >>
     ELSE LogAndRaise("FileNotFoundError")
  /\ UNCHANGED << input_exists, dir, fs_output, fs_bak, consumed,
                  test_file_count, test_count, totals, soup, todo,
                  total_failure_count >>
  /\ UNCHANGED workerVars

\* futures = [executor.submit(process_xml_file, ...) for xml_file in xml_files]
\* The default pool has at least 5 threads, more than MaxFiles + 1: every
\* submitted task may run at once.
Submit ==
  /\ pc = "submit"
  /\ wpc' = [f \in xml_files |-> "queued"]
  /\ future' = [f \in xml_files |-> NoFuture]
  /\ active_suite' = [f \in xml_files |-> 0]
  /\ case_i' = [f \in xml_files |-> 0]
  /\ suite_name' = [f \in xml_files |-> ""]
  /\ pc' = "collect"
  /\ UNCHANGED << input_exists, dir, fs_output, fs_bak, error, xml_files,
                  consumed, test_file_count, test_count, totals, soup, todo,
                  total_failure_count, log >>
  /\ UNCHANGED << test_suites, heap >>

\* The future's exception is not looked at.
FutureRaised_Ignored(f) == FALSE

\* exception = future.exception(); if exception is not None
FutureRaised(f) == future[f].exc # "none"

\* "test_count = tests" in place of "test_count += tests".
Accumulate_Overwrite(total, n) == n

\* test_file_count += files; test_count += tests
Accumulate(total, n) == total + n

\* One turn of "for future in as_completed(futures)".
Collect(f) ==
  /\ pc = "collect"
  /\ f \in xml_files \ consumed
  /\ wpc[f] = "done"
  /\ consumed' = consumed \cup {f}
  /\ IF FutureRaised(f)
     THEN /\ Logged("critical", "worker_exception", f)
          /\ error' = future[f].exc
          /\ pc' = "raising"
          /\ UNCHANGED << test_file_count, test_count >>
     ELSE /\ test_file_count' = Accumulate(test_file_count, future[f].files)
          /\ test_count' = Accumulate(test_count, future[f].tests)
          /\ UNCHANGED << pc, error, log >>
  /\ UNCHANGED << input_exists, dir, fs_output, fs_bak, xml_files, totals,
                  soup, todo, total_failure_count >>
  /\ UNCHANGED workerVars

\* The exception leaves only once as_completed has yielded every future,
\* which the loop, already left, no longer does.
ShutdownAndRaise_AwaitsLoop ==
  /\ pc = "raising"
  /\ consumed = xml_files
  /\ pc' = "aborted"
  /\ UNCHANGED << input_exists, dir, fs_output, fs_bak, error, xml_files,
                  consumed, test_file_count, test_count, totals, soup, todo,
                  total_failure_count, log >>
  /\ UNCHANGED workerVars

\* "raise exception" inside the with block: ThreadPoolExecutor.__exit__ is
\* shutdown(wait=True), every submitted task still runs to its end, then the
\* exception leaves extract_junit_from_test_run and main.
ShutdownAndRaise ==
  /\ pc = "raising"
  /\ \A f \in xml_files : wpc[f] = "done"
  /\ pc' = "aborted"
  /\ UNCHANGED << input_exists, dir, fs_output, fs_bak, error, xml_files,
                  consumed, test_file_count, test_count, totals, soup, todo,
                  total_failure_count, log >>
  /\ UNCHANGED workerVars

\* The suite objects the registry holds.
RegistrySuites == {test_suites[k] : k \in DOMAIN test_suites}

RECURSIVE SumCount(_, _)
SumCount(objs, status) ==
  IF objs = {} THEN 0
  ELSE LET o == CHOOSE x \in objs : TRUE
       IN  SuiteCount(heap[o], status) + SumCount(objs \ {o}, status)

\* The suites are tallied without waiting for the futures: the pool is not
\* joined and the loop over as_completed is not run to its end.
Tally_NoWait ==
  /\ pc = "collect"
  /\ totals' = [passed |-> SumCount(RegistrySuites, "PASSED"),
                failed |-> SumCount(RegistrySuites, "FAILURE"),
                skipped |-> SumCount(RegistrySuites, "SKIPPED")]
  /\ pc' = "sanity"
  /\ UNCHANGED << input_exists, dir, fs_output, fs_bak, error, xml_files,
                  consumed, test_file_count, test_count, soup, todo,
                  total_failure_count, log >>
  /\ UNCHANGED workerVars

\* The loop is over and the pool is left; "for suite in test_suites.values():
\* passed += suite.passed() ..." and the progress lines.
Tally ==
  /\ pc = "collect"
  /\ consumed = xml_files
  /\ totals' = [passed |-> SumCount(RegistrySuites, "PASSED"),
                failed |-> SumCount(RegistrySuites, "FAILURE"),
                skipped |-> SumCount(RegistrySuites, "SKIPPED")]
  /\ pc' = "sanity"
  /\ UNCHANGED << input_exists, dir, fs_output, fs_bak, error, xml_files,
                  consumed, test_file_count, test_count, soup, todo,
                  total_failure_count, log >>
  /\ UNCHANGED workerVars

\* main: the per-suite lines and the two warnings about empty suites.
SanityWarnings ==
  {[level |-> "warning", event |-> "empty_no_files", subject |-> o] :
      o \in {x \in RegistrySuites : IsEmpty(heap[x]) /\ FileCount(heap[x]) = 0}}
  \cup
  {[level |-> "warning", event |-> "empty_with_files", subject |-> o] :
      o \in {x \in RegistrySuites : IsEmpty(heap[x]) /\ FileCount(heap[x]) # 0}}

Sanity ==
  /\ pc = "sanity"
  /\ log' = log \cup SanityWarnings
  /\ pc' = "emit_read"
  /\ UNCHANGED << input_exists, dir, fs_output, fs_bak, error, xml_files,
                  consumed, test_file_count, test_count, totals, soup, todo,
                  total_failure_count >>
  /\ UNCHANGED workerVars

\* ------------------------------------------------- append_failure_results

\* soup = BeautifulSoup(file); soup.body.append(new_tag); the style tags are
\* not kept; total_failure_count = 0; sorted(test_suites.keys())
EmitRead ==
  /\ pc = "emit_read"
  /\ soup' = Append(fs_output.content, Item("header", "", 0))
  /\ total_failure_count' = 0
  /\ todo' = SortedKeys(DOMAIN test_suites)
  /\ pc' = "emit_loop"
  /\ UNCHANGED << input_exists, dir, fs_output, fs_bak, error, xml_files,
                  consumed, test_file_count, test_count, totals, log >>
  /\ UNCHANGED workerVars

\* The break left out: the loop never stops early.
CapExceeded_Never(total) == FALSE

\* if total_failure_count > 200
CapExceeded(total) == total > FailureCap

\* One turn of "for suite_name in sorted(test_suites.keys())".
EmitSuite ==
  /\ pc = "emit_loop"
  /\ todo # <<>>
  /\ LET name == Head(todo)
         failure_count == SuiteCount(heap[test_suites[name]], "FAILURE")
     IN  /\ soup' = IF failure_count = 0 THEN soup
                    ELSE Append(soup, Item("table", name, failure_count))
         /\ total_failure_count' = total_failure_count + failure_count
         /\ IF CapExceeded(total_failure_count')
            THEN todo' = <<>> /\ Logged("critical", "cap", 0)
            ELSE todo' = Tail(todo) /\ UNCHANGED log
  /\ UNCHANGED << input_exists, dir, fs_output, fs_bak, pc, error, xml_files,
                  consumed, test_file_count, test_count, totals >>
  /\ UNCHANGED workerVars

\* The copy left out before the overwrite.
EmitBackup_NoCopy ==
  /\ pc = "emit_loop"
  /\ todo = <<>>
  /\ pc' = "emit_write"
  /\ UNCHANGED << input_exists, dir, fs_output, fs_bak, error, xml_files,
                  consumed, test_file_count, test_count, totals, soup, todo,
                  total_failure_count, log >>
  /\ UNCHANGED workerVars

\* shutil.copyfile(output, output + '.bak')
EmitBackup ==
  /\ pc = "emit_loop"
  /\ todo = <<>>
  /\ fs_bak' = fs_output
  /\ pc' = "emit_write"
  /\ UNCHANGED << input_exists, dir, fs_output, error, xml_files, consumed,
                  test_file_count, test_count, totals, soup, todo,
                  total_failure_count, log >>
  /\ UNCHANGED workerVars

\* with open(output, 'w') as file: file.write(soup.prettify(formatter=None))
EmitWrite ==
  /\ pc = "emit_write"
  /\ fs_output' = File(soup)
  /\ pc' = "done"
  /\ UNCHANGED << input_exists, dir, fs_bak, error, xml_files, consumed,
                  test_file_count, test_count, totals, soup, todo,
                  total_failure_count, log >>
  /\ UNCHANGED workerVars

\* The same statement when the write fails: open(output, 'w') has truncated
\* the file, the OSError leaves main.
EmitWriteFails ==
  /\ pc = "emit_write"
  /\ fs_output' = File(<<>>)
  /\ error' = "OSError"
  /\ pc' = "aborted"
  /\ UNCHANGED << input_exists, dir, fs_bak, xml_files, consumed,
                  test_file_count, test_count, totals, soup, todo,
                  total_failure_count, log >>
  /\ UNCHANGED workerVars

\* ------------------------------------------------------------ specification

Next ==
  \/ CheckInput
  \/ CreateShell
  \/ Discover
  \/ Submit
  \/ \E f \in FileIds : Collect(f)
  \/ ShutdownAndRaise
  \/ Tally
  \/ Sanity
  \/ EmitRead
  \/ EmitSuite
  \/ EmitBackup
  \/ EmitWrite
  \/ EmitWriteFails
  \/ \E f \in FileIds : OpenFails(f)
  \/ \E f \in FileIds : ParseFails(f)
  \/ \E f \in FileIds : Parsed(f)
  \/ \E f \in FileIds : CheckDuplicate(f)
  \/ \E f \in FileIds : InsertSuite(f)
  \/ \E f \in FileIds : LookupActive(f)
  \/ \E f \in FileIds : SetArchive(f)
  \/ \E f \in FileIds : ExtractTestCases(f)
  \/ \E f \in FileIds : AddTestCase(f)
  \/ \E f \in FileIds : ReturnCounts(f)

Spec == Init /\ [][Next]_vars

\* The steps of the main thread.
MainStep ==
  \/ CheckInput
  \/ CreateShell
  \/ Discover
  \/ Submit
  \/ \E f \in FileIds : Collect(f)
  \/ ShutdownAndRaise
  \/ Tally
  \/ Sanity
  \/ EmitRead
  \/ EmitSuite
  \/ EmitBackup
  \/ EmitWrite
  \/ EmitWriteFails

\* The steps of the pool thread that runs task f.
TaskStep(f) ==
  \/ OpenFails(f)
  \/ ParseFails(f)
  \/ Parsed(f)
  \/ CheckDuplicate(f)
  \/ InsertSuite(f)
  \/ LookupActive(f)
  \/ SetArchive(f)
  \/ ExtractTestCases(f)
  \/ AddTestCase(f)
  \/ ReturnCounts(f)

\* Fair scheduling: a thread that can take a step is not held back for ever.
\* The pool has a thread for every submitted task (see Submit), no statement
\* of a task blocks on another thread, and a file operation or parse ends.
Fairness ==
  /\ WF_vars(MainStep)
  /\ \A f \in FileIds : WF_vars(TaskStep(f))

FairSpec == Init /\ [][Next]_vars /\ Fairness

\* ------------------------------------------------------ shared definitions

\* The as_completed loop ended without an exception: the registry is final.
AfterExtraction == pc \in {"sanity", "emit_read", "emit_loop", "emit_write", "done"}

\* append_failure_results has been entered.
InEmission == pc \in {"emit_loop", "emit_write", "done"}

\* The file opens and parses.
Parses(f) == Catalogue[f].readable /\ Catalogue[f].wellformed

\* The file parses, passes the secondary filter and holds test cases.
HasTests(f) == Parses(f) /\ ~CaseExcluded(f) /\ FindAllCount(Doc(f)) >= 1

\* Two distinct candidate files that declare the same suite name.
SameNamePairs ==
  {p \in xml_files \X xml_files :
     /\ p[1] # p[2]
     /\ Parses(p[1]) /\ Parses(p[2])
     /\ Doc(p[1]).name = Doc(p[2]).name}

\* The files whose test cases a suite object holds.
CaseFiles(suite) == {suite.tests[i].file : i \in 1..Len(suite.tests)}

\* The task's future completed by returning (files, tests).
Returned(f, files, tests) ==
  /\ wpc[f] = "done"
  /\ future[f] = [exc |-> "none", files |-> files, tests |-> tests]

\* -------------------------------------------------------------------- C1

\* C1: when two candidate files declare the same suite name, both parse and
\* both hold test cases, then after the extraction phase the registry holds
\* one suite under that name, its file_count is 1 and all of its test cases
\* come from one single file.
C1_OneSuiteOneFile ==
  AfterExtraction =>
    \A p \in SameNamePairs :
      (HasTests(p[1]) /\ HasTests(p[2])) =>
        LET name == Doc(p[1]).name
        IN  /\ name \in DOMAIN test_suites
            /\ FileCount(heap[test_suites[name]]) = 1
            /\ Cardinality(CaseFiles(heap[test_suites[name]])) = 1

\* -------------------------------------------------------------------- C2

\* Exactly one candidate fails to parse, the others parse and declare
\* pairwise distinct suite names.
OneMalformedAmongValid ==
  /\ Cardinality(xml_files) >= 2
  /\ Cardinality({f \in xml_files : ~Catalogue[f].wellformed}) = 1
  /\ \A f \in xml_files : Catalogue[f].readable
  /\ \A f, g \in xml_files :
       (f # g /\ Parses(f) /\ Parses(g)) => Doc(f).name # Doc(g).name

\* C2: with one malformed file among otherwise valid files of pairwise
\* distinct suite names, the malformed file's task returns (0,0) without an
\* exception, the run is not aborted by the extraction, and the final
\* registry holds exactly the suites of the valid files.
C2_ParseFailureIsolated ==
  OneMalformedAmongValid =>
    /\ \A f \in Tasks :
         (~Catalogue[f].wellformed /\ wpc[f] = "done") => Returned(f, 0, 0)
    /\ pc # "raising"
    /\ (pc = "aborted" => error = "OSError")
    /\ AfterExtraction =>
         DOMAIN test_suites = {Doc(f).name : f \in {g \in xml_files : Parses(g)}}

\* -------------------------------------------------------------------- C3

\* C3: of two files declaring the same suite name (both with test cases)
\* exactly one contributes to the tallies: the other task returns (0,0), and
\* when they are the only candidates the accumulated file count is 1 and the
\* accumulated test count is that of one of the two files.
C3_OneContributor ==
  AfterExtraction =>
    \A p \in SameNamePairs :
      (HasTests(p[1]) /\ HasTests(p[2])) =>
        /\ Returned(p[1], 0, 0) \/ Returned(p[2], 0, 0)
        /\ ~(Returned(p[1], 0, 0) /\ Returned(p[2], 0, 0))
        /\ xml_files = {p[1], p[2]} =>
             /\ test_file_count = 1
             /\ test_count \in {FindAllCount(Doc(p[1])), FindAllCount(Doc(p[2]))}

\* -------------------------------------------------------------------- C4

\* C4: an entry of the registry is never removed and never replaced by a
\* different TestSuite object (so at most one task inserts under a name).
C4_EntryNeverReplaced ==
  [][\A name \in DOMAIN test_suites :
       /\ name \in DOMAIN test_suites'
       /\ test_suites'[name] = test_suites[name]]_vars

\* -------------------------------------------------------------------- C5

\* What one file adds to the suite it claims, as counts.
Contribution(f) ==
  IF ~Contains(Path(f), ".xml") \/ CaseExcluded(f) \/ FindAllCount(Doc(f)) = 0
  THEN [files |-> 0, tests |-> 0, passed |-> 0, failed |-> 0, skipped |-> 0]
  ELSE LET tests == [i \in 1..Len(IterCases(Doc(f))) |->
                       NewTestCases(f, IterCases(Doc(f))[i])]
       IN  [files |-> 1, tests |-> FindAllCount(Doc(f)),
            passed |-> CountBlocks(tests, "PASSED"),
            failed |-> CountBlocks(tests, "FAILURE"),
            skipped |-> CountBlocks(tests, "SKIPPED")]

\* The run in which the tasks execute one after the other, in ascending file
\* order: a file whose suite name is already taken is skipped.
RECURSIVE SequentialRun(_, _)
SequentialRun(files, acc) ==
  IF files = {} THEN acc
  ELSE LET f == CHOOSE x \in files : \A y \in files : x <= y
           c == Contribution(f)
           name == Doc(f).name
       IN  SequentialRun(files \ {f},
             IF name \in DOMAIN acc.suites THEN acc
             ELSE [suites |-> (name :> [passed |-> c.passed, failed |-> c.failed,
                                        skipped |-> c.skipped]) @@ acc.suites,
                   file_count |-> acc.file_count + c.files,
                   test_count |-> acc.test_count + c.tests,
                   passed |-> acc.passed + c.passed,
                   failed |-> acc.failed + c.failed,
                   skipped |-> acc.skipped + c.skipped])

EmptyRun ==
  [suites |-> << >>, file_count |-> 0, test_count |-> 0,
   passed |-> 0, failed |-> 0, skipped |-> 0]

\* What this run reports: the per-suite counts and the totals.
ObservedRun ==
  [suites |-> [name \in DOMAIN test_suites |->
                 [passed |-> SuiteCount(heap[test_suites[name]], "PASSED"),
                  failed |-> SuiteCount(heap[test_suites[name]], "FAILURE"),
                  skipped |-> SuiteCount(heap[test_suites[name]], "SKIPPED")]],
   file_count |-> test_file_count,
   test_count |-> test_count,
   passed |-> totals.passed,
   failed |-> totals.failed,
   skipped |-> totals.skipped]

\* The results are those of the sequential run over the same files.
SameAsSequentialRun ==
  LET seq == SequentialRun(xml_files, EmptyRun)
      obs == ObservedRun
  IN  /\ DOMAIN obs.suites = DOMAIN seq.suites
      /\ \A name \in DOMAIN obs.suites : obs.suites[name] = seq.suites[name]
      /\ obs.file_count = seq.file_count
      /\ obs.test_count = seq.test_count
      /\ obs.passed = seq.passed
      /\ obs.failed = seq.failed
      /\ obs.skipped = seq.skipped

\* The candidates declare pairwise distinct suite names.
DistinctSuiteNames ==
  \A f, g \in xml_files : (f # g /\ Parses(f) /\ Parses(g)) => Doc(f).name # Doc(g).name

\* C5 as stated: for every set of candidate files the per-suite counts and
\* the totals are the same in every interleaving, hence equal to those of
\* the interleaving that runs the tasks one after the other.
C5_SameInEveryInterleaving == AfterExtraction => SameAsSequentialRun

\* C5, amended: for every set of candidate files that declare pairwise
\* distinct suite names, the per-suite counts and the totals of a completed
\* extraction are the same in every interleaving and completion order.
C5_SameForDistinctNames ==
  (AfterExtraction /\ DistinctSuiteNames) => SameAsSequentialRun

\* Two files of distinct suite names, both with test cases, were extracted
\* and tallied, the second file's future collected first.
C5_Witness ==
  /\ pc = "done"
  /\ DistinctSuiteNames
  /\ Cardinality({f \in xml_files : HasTests(f)}) >= 2
  /\ totals.passed + totals.failed + totals.skipped > 0

\* -------------------------------------------------------------------- C6

\* C6: when no candidate file remains after discovery and filtering, the run
\* ends with FileNotFoundError before any extraction: no task was submitted,
\* the registry holds nothing and append_failure_results was not entered.
C6_NoCandidatesAborts ==
  (input_exists /\ Candidates(dir) = {} /\ pc \notin {"main", "shell", "discover"}) =>
    /\ pc = "aborted"
    /\ error = "FileNotFoundError"
    /\ Tasks = {}
    /\ DOMAIN test_suites = {}
    /\ DOMAIN heap = {}
    /\ soup = <<>>
    /\ fs_bak = Absent

\* A directory that holds files, none of them a candidate, was refused.
C6_Witness ==
  /\ pc = "aborted"
  /\ input_exists
  /\ dir # {}
  /\ Candidates(dir) = {}
  /\ error = "FileNotFoundError"

\* -------------------------------------------------------------------- C7

\* C7: once a task has ended with an exception the run never reaches the
\* tallies or the report: the main thread is still collecting, or re-raising
\* that exception, or aborted with it; the target document keeps its content
\* and no .bak copy exists.
C7_WorkerErrorAborts ==
  \A f \in Tasks :
    (wpc[f] = "done" /\ future[f].exc # "none") =>
      /\ pc \in {"collect", "raising", "aborted"}
      /\ f \in consumed => pc \in {"raising", "aborted"}
      /\ pc \in {"raising", "aborted"} =>
           \E g \in consumed : future[g].exc # "none" /\ error = future[g].exc
      /\ soup = <<>>
      /\ fs_bak = Absent
      /\ fs_output \in {File(BlankShell), File(PriorReport)}

\* The run was aborted by a task's exception while another task had already
\* put its suite into the registry.
C7_Witness ==
  /\ pc = "aborted"
  /\ error = "PermissionError"
  /\ \E f \in Tasks : future[f].exc = "PermissionError"
  /\ \E g \in Tasks : Returned(g, 1, FindAllCount(Doc(g)))
  /\ DOMAIN test_suites # {}

\* -------------------------------------------------------------------- C8

\* The suites of the document's failure tables.
Tables(doc) == {doc[i].suite : i \in {j \in 1..Len(doc) : doc[j].kind = "table"}}

\* The running failure total when the loop reaches the suite: the failures
\* of the suites sorted before it.
FailuresBefore(name) ==
  SumCount({test_suites[k] : k \in {x \in DOMAIN test_suites :
                                      NameIndex(x) < NameIndex(name)}}, "FAILURE")

CapLogged == [level |-> "critical", event |-> "cap", subject |-> 0] \in log

\* C8 as stated: no failure table is appended for a suite visited after the
\* running total has reached 200.
C8_StopsAtCap ==
  InEmission => \A name \in Tables(soup) : FailuresBefore(name) < FailureCap

\* C8, amended: no failure table is appended for a suite visited after the
\* running total has exceeded 200 (a total of exactly 200 does not stop the
\* emission), and the cap is logged exactly when the total exceeds 200.
C8_StopsAboveCap ==
  InEmission =>
    /\ \A name \in Tables(soup) : FailuresBefore(name) <= FailureCap
    /\ CapLogged <=> total_failure_count > FailureCap
    /\ (todo = <<>> /\ ~CapLogged) =>
         \A name \in DOMAIN test_suites :
           SuiteCount(heap[test_suites[name]], "FAILURE") > 0 => name \in Tables(soup)

\* The cap was hit and a later suite with failures got no table.
C8_Witness ==
  /\ pc = "done"
  /\ CapLogged
  /\ \E name \in DOMAIN test_suites :
       /\ SuiteCount(heap[test_suites[name]], "FAILURE") > 0
       /\ name \notin Tables(soup)

\* -------------------------------------------------------------------- C9

\* C9: whenever the existing target document is overwritten, the .bak file
\* already holds exactly the content being overwritten and is left as it is.
C9_BackupBeforeOverwrite ==
  [][(fs_output.exists /\ fs_output' # fs_output) =>
       (fs_bak = fs_output /\ fs_bak' = fs_bak)]_vars

\* The overwrite failed and the .bak file holds the previous report.
C9_Witness ==
  /\ pc = "aborted"
  /\ error = "OSError"
  /\ fs_bak = File(PriorReport)
  /\ fs_output # fs_bak

\* ------------------------------------------------------------------- C10

RECURSIVE CountFromFile(_, _)
CountFromFile(tests, f) ==
  IF tests = <<>> THEN 0
  ELSE (IF Head(tests).file = f THEN Head(tests).n ELSE 0)
         + CountFromFile(Tail(tests), f)

\* C10: a task that found its suite name unclaimed and created the suite,
\* whose file passes the secondary filter and holds N >= 1 test-case
\* elements, has appended exactly N entries to the suite it created and
\* returns (1, N).
C10_AppendsAllCases ==
  \A f \in Tasks :
    LET N == SumN(IterCases(Doc(f)))
    IN  (wpc[f] = "done" /\ f \in DOMAIN heap /\ ~CaseExcluded(f) /\ N >= 1) =>
          /\ Returned(f, 1, N)
          /\ CountFromFile(heap[f].tests, f) = N
          /\ CaseFiles(heap[f]) = {f}

\* ------------------------------------------------------------------- C11

\* The tasks that have mutated suite object o: a task mutates the object its
\* local active_suite names, first with set_archive.
Mutators(o) ==
  {f \in Tasks : active_suite[f] = o /\ wpc[f] \in {"extract", "cases", "done"}}

\* C11: in every interleaving each suite object is mutated (set_archive,
\* add_file, add_testcase) by at most one task, the task that inserted it
\* into the registry; no two tasks hold and mutate the same suite object.
C11_SingleWriter ==
  \A o \in DOMAIN heap :
    /\ Mutators(o) \subseteq {o}
    /\ heap[o].archive \in {0, o}
    /\ heap[o].files \subseteq {o}
    /\ CaseFiles(heap[o]) \subseteq {o}

\* ------------------------------------------------------------------- C12

\* C12: every step of a task whose file fails to open or to parse leaves the
\* registry as it was: no entry is inserted and no suite object is created
\* or mutated, whatever the other tasks are doing.
C12_FailedParseLeavesRegistry ==
  [][\A f \in Tasks :
       (~Parses(f) /\ wpc'[f] # wpc[f]) =>
         (test_suites' = test_suites /\ heap' = heap)]_vars

\* A task has ended on a file that does not parse while another task, whose
\* suite is in the registry, is still at work.
C12_Witness ==
  \E f, g \in Tasks :
    /\ ~Catalogue[f].wellformed
    /\ wpc[f] = "done"
    /\ f \notin DOMAIN heap
    /\ g \in RegistrySuites
    /\ wpc[g] \in {"lookup", "archive", "extract", "cases"}

\* ------------------------------------------------------------------- C13

\* The tables of the document, in document order.
TableSeq(doc) ==
  LET IsTable(it) == it.kind = "table"
  IN  SelectSeq(doc, IsTable)

\* The tables due once the loop has passed every suite not in rest: in
\* ascending name order, one per suite with a failing case that is reached
\* while the running total is at most 200.
TablesDue(rest) ==
  LET Due(name) ==
        /\ name \in DOMAIN test_suites
        /\ name \notin Range(rest)
        /\ SuiteCount(heap[test_suites[name]], "FAILURE") > 0
        /\ FailuresBefore(name) <= FailureCap
      TableOf(name) ==
        Item("table", name, SuiteCount(heap[test_suites[name]], "FAILURE"))
      names == SelectSeq(SuiteNames, Due)
  IN  [i \in 1..Len(names) |-> TableOf(names[i])]

\* C13: append_failure_results visits the suites in ascending name order;
\* while the running failure total has not exceeded 200 it appends one table
\* for each suite with a failing case and nothing for a suite with none, and
\* once the total exceeds 200 it appends no table of a later suite.
C13_TablesInOrderUntilCap ==
  InEmission => TableSeq(soup) = TablesDue(todo)

\* The report was written with the tables of two suites.
C13_Witness ==
  /\ pc = "done"
  /\ Len(TableSeq(soup)) = 2

\* ------------------------------------------------------------------- C14

\* C14: the registry is frozen before it is read. Every step that enters or
\* follows the tally of the suites (the first read of the registry by the
\* summary and report phases) finds every submitted task completed, and
\* changes no registry entry and no suite object.
C14_FrozenBeforeRead ==
  [][(AfterExtraction \/ AfterExtraction') =>
       /\ \A f \in Tasks : wpc[f] = "done"
       /\ test_suites' = test_suites
       /\ heap' = heap]_vars

\* The report of two tasks was written from a registry that holds test cases.
C14_Witness ==
  /\ pc = "done"
  /\ Cardinality(Tasks) = 2
  /\ \E o \in RegistrySuites : ~IsEmpty(heap[o])

\* ------------------------------------------------------------------- C15

\* The run has ended: main returned or an exception left it.
Terminated == pc \in {"done", "aborted"}

\* C15: under fair scheduling every run ends, by normal completion or by an
\* abort, with every submitted task ended; in particular a run in which the
\* first fatal worker error is re-raised inside the pool's scope, while
\* sibling tasks are queued or at work, ends so.
C15_Terminates ==
  <>(Terminated /\ \A f \in Tasks : wpc[f] = "done")

\* A worker's error is being re-raised while a sibling task has not started.
C15_Witness ==
  /\ pc = "raising"
  /\ \E g \in Tasks : wpc[g] = "queued"

\* ------------------------------------------------------------------- C16

RECURSIVE HeldTests(_)
\* The number of test cases the suite objects hold.
HeldTests(objs) ==
  IF objs = {} THEN 0
  ELSE LET o == CHOOSE x \in objs : TRUE
       IN  SumN(heap[o].tests) + HeldTests(objs \ {o})

\* C16: when the extraction has completed without a fatal error, the
\* accumulated test count equals the number of test cases the suites of the
\* final registry hold, and the accumulated file count equals the number of
\* registry suites with a contributing file.
C16_TotalsMatchRegistry ==
  AfterExtraction =>
    /\ test_count = HeldTests(RegistrySuites)
    /\ test_file_count =
         Cardinality({o \in RegistrySuites : FileCount(heap[o]) >= 1})

\* ------------------------------------------------------------------- C17

\* C17: in the frozen registry a suite is empty exactly when no file
\* contributed to it; a suite without test cases and with a file never
\* exists after the extraction, and main's second warning about empty
\* suites (empty, with a file association) is never logged.
C17_EmptyIffNoFiles ==
  /\ AfterExtraction =>
       \A o \in RegistrySuites : IsEmpty(heap[o]) <=> FileCount(heap[o]) = 0
  /\ \A entry \in log : entry.event # "empty_with_files"

\* main has warned about an empty suite without files, beside a suite that
\* holds test cases.
C17_Witness ==
  /\ pc = "done"
  /\ \E o \in RegistrySuites :
       [level |-> "warning", event |-> "empty_no_files", subject |-> o] \in log
  /\ \E o \in RegistrySuites : ~IsEmpty(heap[o]) /\ FileCount(heap[o]) >= 1

\* ------------------------------------------------------------------- C18

\* The file parses but the secondary filter rejects it or it holds no
\* test-case element.
Barren(f) == Parses(f) /\ (CaseExcluded(f) \/ FindAllCount(Doc(f)) = 0)

\* C18: a task whose file parses but is rejected by the secondary filter or
\* holds no test-case element, and which found its suite name unclaimed,
\* returns (0, 0) and leaves the name in the registry with an empty suite
\* without files: every other task of that name which found the name claimed
\* returned (0, 0), and the name holds no test case from then on to the end
\* of the run.
C18_BarrenFileClaimsName ==
  \A f \in Tasks :
    (Barren(f) /\ wpc[f] = "done" /\ f \in DOMAIN heap) =>
      LET name == suite_name[f]
      IN  /\ Returned(f, 0, 0)
          /\ name \in DOMAIN test_suites
          /\ IsEmpty(heap[test_suites[name]])
          /\ FileCount(heap[test_suites[name]]) = 0
          /\ \A g \in Tasks \ {f} :
               (suite_name[g] = name /\ wpc[g] = "done" /\ g \notin DOMAIN heap)
                 => Returned(g, 0, 0)

=============================================================================
